---- MODULE Spec2Model ----
(***************************************************************************)
(* Quota-aware ingestion and lifecycle manager of the iplc-ai worker:      *)
(* the vector-count quota kept in KV, embedAndStore, deleteDocumentVectors *)
(* and cleanupOldVectors, interleaved at their awaited external calls.     *)
(***************************************************************************)
EXTENDS Integers, Sequences, FiniteSets, TLC

----------------------------------------------------------------------------
(* Program constants *)

MAX_VECTORS == 100

VECTOR_COUNT_KEY == "__vector_count__"

maxAgeInDays == 30

(* Bounds of the model *)

\* number of request-scoped invocations that may be in flight together
NumProcs == 2

\* total number of invocations started in one behaviour
MaxOps == 2

\* the small batch sizes an ingest may have: 1..MaxSmall chunks
MaxSmall == 2

\* the clock is read at the instants 0..MaxFine days after each multiple
\* of the retention period plus one day
MaxFine == 0

\* last clock reading of a behaviour, in days
MaxNow == 31

\* number of vectors of each document that predates the behaviour
SeedChunks == 1

\* longest text given to chunkText, in characters
MaxTextLen == 6

\* largest of the small maximum chunk sizes given to chunkText
MaxChunkSize == 4

Procs == 1..NumProcs

\* document IDs a caller can put in a request; handleEmbed and
\* handleDeleteDocument accept any non-empty string
DocIds == {"docA", "docB", VECTOR_COUNT_KEY}

\* documents already in the cleanup namespace when the behaviour starts,
\* one listed before and one after the documents of the requests
SeedIds == {"arc1", "old2"}

\* documents ingested by embedAndStore before the behaviour starts
PriorIds == {"docB"}

Keys == DocIds \cup SeedIds

\* document IDs of delete requests
DeleteIds == DocIds \cup {"arc1"}

\* allChunks.length of an ingest request
ChunkCounts == (1..MaxSmall) \cup {MAX_VECTORS - 1}

ClockValues == {t \in 0..MaxNow : t % (maxAgeInDays + 1) <= MaxFine}

----------------------------------------------------------------------------
(* JavaScript numbers: an integer or NaN *)

Num(n) == [nan |-> FALSE, v |-> n]

NaN == [nan |-> TRUE, v |-> 0]

\* a + b
JsAdd(a, b) == IF a.nan \/ b.nan THEN NaN ELSE Num(a.v + b.v)

\* a - b
JsSub(a, b) == IF a.nan \/ b.nan THEN NaN ELSE Num(a.v - b.v)

\* Math.max(0, a)
JsMax0(a) == IF a.nan THEN NaN ELSE IF a.v < 0 THEN Num(0) ELSE a

\* Math.min(a, b)
JsMin(a, b) == IF a.nan \/ b.nan THEN NaN ELSE IF a.v < b.v THEN a ELSE b

\* a <= b
JsLe(a, b) == ~a.nan /\ ~b.nan /\ a.v <= b.v

(* Strings as sequences of characters *)

Digits == <<"0", "1", "2", "3", "4", "5", "6", "7", "8", "9">>

IsDigit(c) == \E d \in 1..10 : Digits[d] = c

DigitValue(c) == (CHOOSE d \in 1..10 : Digits[d] = c) - 1

RECURSIVE NatToString(_)
NatToString(n) ==
    IF n < 10 THEN <<Digits[n + 1]>>
    ELSE NatToString(n \div 10) \o <<Digits[(n % 10) + 1]>>

\* Number.prototype.toString of an integer or NaN
NumToString(a) ==
    IF a.nan THEN <<"N", "a", "N">>
    ELSE IF a.v < 0 THEN <<"-">> \o NatToString(-a.v)
    ELSE NatToString(a.v)

RECURSIVE ParseDigits(_, _, _)
ParseDigits(s, i, acc) ==
    IF i > Len(s) \/ ~IsDigit(s[i]) THEN acc
    ELSE ParseDigits(s, i + 1, acc * 10 + DigitValue(s[i]))

\* parseInt(s, 10): an optional sign and the leading run of digits, NaN
\* when there is no digit
ParseInt(s) ==
    LET first == IF Len(s) > 0 /\ s[1] = "-" THEN 2 ELSE 1 IN
    IF first > Len(s) \/ ~IsDigit(s[first]) THEN NaN
    ELSE IF first = 2 THEN Num(-ParseDigits(s, 2, 0))
    ELSE Num(ParseDigits(s, 1, 0))

----------------------------------------------------------------------------
(* Values of the KV namespaces *)

NoObj ==
    [hasUploadedAt |-> FALSE, uploadedAt |-> 0, chunksCount |-> 0,
     hasVectorIds |-> FALSE, vectorIds |-> <<>>,
     hasChunks |-> FALSE, chunks |-> <<>>]

\* key not present
Absent == [kind |-> "absent", chars |-> <<>>, obj |-> NoObj]

\* value written by put(key, string)
TextValue(s) == [kind |-> "text", chars |-> s, obj |-> NoObj]

\* value written by put(key, JSON.stringify(object))
JsonValue(o) == [kind |-> "json", chars |-> <<"{">>, obj |-> o]

\* KV get(key, 'text'): null for an absent key, else the stored string
\* (of a JSON.stringify output only the leading brace is kept)
GetText(store, key) == store[key]

\* KV get(key, 'json'): null, the parsed value, or a SyntaxError
GetJson(store, key) ==
    LET val == store[key] IN
    CASE val.kind = "absent" -> [t |-> "null", num |-> 0, obj |-> NoObj]
      [] val.kind = "json" -> [t |-> "object", num |-> 0, obj |-> val.obj]
      [] OTHER ->
           IF ParseInt(val.chars).nan
           THEN [t |-> "throw", num |-> 0, obj |-> NoObj]
           ELSE [t |-> "number", num |-> ParseInt(val.chars).v, obj |-> NoObj]

\* ids `${documentId}-${Date.now()}-${idx}` for idx = 0..count-1
VectorIdsOf(documentId, stamp, count) ==
    [i \in 1..count |-> <<documentId, stamp, i - 1>>]

Range(s) == {s[i] : i \in 1..Len(s)}

----------------------------------------------------------------------------
VARIABLES
    now,                \* wall clock, in days
    aliased,            \* the bindings DOCUMENT_METADATA and DOC_METADATA name one namespace
    DOC_INDEX,          \* ids of the vectors in the Vectorize index
    DOC_METADATA,       \* KV namespace of embedAndStore / deleteDocumentVectors / the counter
    DOCUMENT_METADATA,  \* KV namespace cleanupOldVectors lists (when not aliased)
    inv,                \* the invocations: position, locals, result
    nOps                \* invocations started so far

vars == <<now, aliased, DOC_INDEX, DOC_METADATA, DOCUMENT_METADATA, inv, nOps>>

----------------------------------------------------------------------------
(* Quota tracker *)

\* getVectorCount: count ? parseInt(count, 10) : 0
getVectorCount(store) ==
    LET count == GetText(store, VECTOR_COUNT_KEY) IN
    IF count.kind = "absent" \/ Len(count.chars) = 0 THEN Num(0)
    ELSE ParseInt(count.chars)

\* NewCount without the Math.max: currentCount + delta
NewCount_Unclamped(currentCount, delta) == JsAdd(currentCount, Num(delta))

\* NewCount held at the capacity: Math.min(MAX_VECTORS, Math.max(0, ...))
NewCount_Capped(currentCount, delta) ==
    LET sum == JsMax0(JsAdd(currentCount, Num(delta))) IN
    IF ~sum.nan /\ sum.v > MAX_VECTORS THEN Num(MAX_VECTORS) ELSE sum

\* updateVectorCount, line 20: Math.max(0, currentCount + delta)
NewCount(currentCount, delta) == JsMax0(JsAdd(currentCount, Num(delta)))

\* updateVectorCount with the put of line 21 lost
PutCount_Lost(store, newCount) == store

\* updateVectorCount, line 21: put(VECTOR_COUNT_KEY, newCount.toString())
PutCount(store, newCount) ==
    [store EXCEPT ![VECTOR_COUNT_KEY] = TextValue(NumToString(newCount))]

\* checkVectorQuota with requiredVectors < availableQuota
checkVectorQuota_Strict(store, requiredVectors) ==
    LET currentCount == getVectorCount(store)
        availableQuota == JsSub(Num(MAX_VECTORS), currentCount)
    IN  [checked |-> TRUE,
         allowed |-> /\ ~availableQuota.nan
                     /\ requiredVectors < availableQuota.v,
         currentCount |-> currentCount,
         availableQuota |-> availableQuota]

checkVectorQuota(store, requiredVectors) ==
    LET currentCount == getVectorCount(store)
        availableQuota == JsSub(Num(MAX_VECTORS), currentCount)
    IN  [checked |-> TRUE,
         allowed |-> JsLe(Num(requiredVectors), availableQuota),
         currentCount |-> currentCount,
         availableQuota |-> availableQuota]

\* the log entry of emitQuotaMetric (timestamp left out; percentUsed is
\* count / MAX_VECTORS * 100 and is kept as its exact value times MAX_VECTORS)
emitQuotaMetric(count, delta, reason) ==
    [type |-> "vector_quota", count |-> count, delta |-> delta,
     reason |-> reason,
     percentUsedTimesMax |-> IF count.nan THEN NaN ELSE Num(count.v * 100)]

----------------------------------------------------------------------------
(* Invocations *)

NoQuota ==
    [checked |-> FALSE, allowed |-> FALSE,
     currentCount |-> Num(0), availableQuota |-> Num(0)]

NoResult ==
    [returned |-> FALSE, success |-> FALSE, deletedCount |-> 0,
     vectorIds |-> <<>>, error |-> ""]

NoUsage ==
    [currentCount |-> Num(0), maxCount |-> 0, availableQuota |-> Num(0),
     percentageUsedTimes100 |-> Num(0)]

\* a request slot with nothing running in it
IdleInv ==
    [op |-> "none", pc |-> "idle", documentId |-> "", requested |-> 0,
     quotaCheck |-> NoQuota, vectors |-> <<>>, vectorIds |-> <<>>,
     currentCount |-> Num(0), newCount |-> Num(0),
     uploadedAt |-> 0, keys |-> <<>>, idx |-> 0, cutoff |-> 0,
     deletedCount |-> 0, result |-> NoResult,
     limit |-> Num(0), safeLimit |-> Num(0), matches |-> 0,
     usage |-> NoUsage,
     text |-> <<>>, maxChunkSize |-> 0, chunks |-> <<>>,
     seq |-> 0,           \* history: the invocation is the seq-th one started
     countAtStart |-> Num(0), \* history: getVectorCount when it started
     listedAtStart |-> FALSE, \* history: its document had a vector-ID list
     failed |-> FALSE,    \* history: an external call of it failed
     failedAt |-> "",     \* history: the first call of it that failed
     failedIdx |-> 0,     \* history: the value of idx at that failure
     failures |-> 0,      \* history: the number of calls of it that failed
     calls |-> <<>>,      \* history: the external calls that took effect
     emitted |-> <<>>]    \* history: the metrics logged

\* the slot of a newly started invocation of op, suspended at its first call
Started(op, pc) ==
    [IdleInv EXCEPT !.op = op, !.pc = pc, !.seq = nOps + 1,
                    !.countAtStart = getVectorCount(DOC_METADATA)]

Free(p) == inv[p].pc \in {"idle", "done"}

\* a new invocation runs in the free slot that was used least recently
FirstFree(p) ==
    /\ Free(p)
    /\ \A q \in Procs :
         Free(q) => \/ inv[q].seq > inv[p].seq
                    \/ inv[q].seq = inv[p].seq /\ q >= p

\* r with the failure of the call it is suspended at recorded
Failed(r) ==
    [r EXCEPT !.failed = TRUE,
              !.failedAt = IF r.failed THEN r.failedAt ELSE r.pc,
              !.failedIdx = IF r.failed THEN r.failedIdx ELSE r.idx,
              !.failures = r.failures + 1]

\* r with the external call c on key or store k recorded as done
Called(r, c, k) == [r EXCEPT !.calls = Append(@, [c |-> c, k |-> k])]

\* return of a { success: false, error } result
Failure(r, error, deletedCount) ==
    [r EXCEPT !.pc = "done",
              !.result = [returned |-> TRUE, success |-> FALSE,
                          deletedCount |-> deletedCount,
                          vectorIds |-> <<>>, error |-> error]]

\* embedAndStore without its catch block: the exception leaves the function
EmbedCaught_Rethrow(r) == [Failed(r) EXCEPT !.pc = "done"]

\* the catch block of embedAndStore, lines 165-171
EmbedCaught(r) == Failure(Failed(r), "exception", 0)

----------------------------------------------------------------------------
(* embedAndStore *)

\* handleEmbed, lines 104-123, up to the call of checkVectorQuota
StartEmbed(p, documentId, n) ==
    /\ FirstFree(p)
    /\ nOps < MaxOps
    /\ nOps' = nOps + 1
    /\ inv' = [inv EXCEPT ![p] =
                 [Started("embedAndStore", "checkVectorQuota")
                    EXCEPT !.documentId = documentId, !.requested = n,
                           !.listedAtStart =
                               /\ DOC_METADATA[documentId].kind = "json"
                               /\ DOC_METADATA[documentId].obj.hasVectorIds]]
    /\ UNCHANGED <<now, aliased, DOC_INDEX, DOC_METADATA, DOCUMENT_METADATA>>

\* OnQuotaChecked with the return of line 115 missing
OnQuotaChecked_NoReturn(r, q) ==
    IF ~q.allowed
    THEN [r EXCEPT !.quotaCheck = q,
                   !.emitted = Append(@, emitQuotaMetric(
                       q.currentCount, 0,
                       <<"quota_denied_requested", r.requested>>)),
                   !.pc = "AI.run"]
    ELSE [r EXCEPT !.quotaCheck = q, !.pc = "AI.run"]

\* OnQuotaChecked with the denial returned without its metric
OnQuotaChecked_NoMetric(r, q) ==
    IF ~q.allowed
    THEN Failure([r EXCEPT !.quotaCheck = q], "quota", 0)
    ELSE [r EXCEPT !.quotaCheck = q, !.pc = "AI.run"]

\* lines 106-119: the admission decision and the denial
OnQuotaChecked(r, q) ==
    IF ~q.allowed
    THEN Failure([r EXCEPT !.quotaCheck = q,
                           !.emitted = Append(@, emitQuotaMetric(
                               q.currentCount, 0,
                               <<"quota_denied_requested", r.requested>>))],
                 "quota", 0)
    ELSE [r EXCEPT !.quotaCheck = q, !.pc = "AI.run"]

EmbedCheckQuota(p) ==
    /\ inv[p].op = "embedAndStore"
    /\ inv[p].pc = "checkVectorQuota"
    /\ \/ inv' = [inv EXCEPT ![p] =
                    OnQuotaChecked(Called(inv[p], "get", VECTOR_COUNT_KEY),
                                   checkVectorQuota(DOC_METADATA, inv[p].requested))]
       \/ inv' = [inv EXCEPT ![p] = EmbedCaught(inv[p])]
    /\ UNCHANGED <<now, aliased, DOC_INDEX, DOC_METADATA, DOCUMENT_METADATA, nOps>>

\* OnEmbedded going on to the counter update before the upsert
OnEmbedded_CountFirst(r, stamp) ==
    [r EXCEPT !.vectors = VectorIdsOf(r.documentId, stamp, r.requested),
              !.pc = "getVectorCount"]

\* lines 126-135: one vector per returned embedding
OnEmbedded(r, stamp) ==
    [r EXCEPT !.vectors = VectorIdsOf(r.documentId, stamp, r.requested),
              !.pc = "upsert"]

\* line 122: AI.run returns the embeddings, returns a malformed response
\* (line 127 throws) or rejects
EmbedRun(p) ==
    /\ inv[p].op = "embedAndStore"
    /\ inv[p].pc = "AI.run"
    /\ \/ inv' = [inv EXCEPT ![p] = OnEmbedded(Called(inv[p], "run", "AI"), now)]
       \/ inv' = [inv EXCEPT ![p] = EmbedCaught(Called(inv[p], "run", "AI"))]
       \/ inv' = [inv EXCEPT ![p] = EmbedCaught(inv[p])]
    /\ UNCHANGED <<now, aliased, DOC_INDEX, DOC_METADATA, DOCUMENT_METADATA, nOps>>

\* OnUpsertFailed with the rejection swallowed: the count update still runs
OnUpsertFailed_Swallowed(r) == [Failed(r) EXCEPT !.pc = "getVectorCount"]

\* line 138 rejected: nothing was stored
OnUpsertFailed(r) == EmbedCaught(r)

\* line 138: DOC_INDEX.upsert(vectors), then updateVectorCount is entered
EmbedUpsert(p) ==
    /\ inv[p].op = "embedAndStore"
    /\ inv[p].pc = "upsert"
    /\ \/ /\ DOC_INDEX' = DOC_INDEX \cup Range(inv[p].vectors)
          /\ inv' = [inv EXCEPT ![p] =
                       [Called(inv[p], "upsert", "DOC_INDEX")
                          EXCEPT !.pc = "getVectorCount"]]
       \/ /\ inv' = [inv EXCEPT ![p] = OnUpsertFailed(inv[p])]
          /\ UNCHANGED DOC_INDEX
    /\ UNCHANGED <<now, aliased, DOC_METADATA, DOCUMENT_METADATA, nOps>>

\* updateVectorCount, lines 19-20, with delta = vectors.length
EmbedReadCount(p) ==
    /\ inv[p].op = "embedAndStore"
    /\ inv[p].pc = "getVectorCount"
    /\ \/ inv' = [inv EXCEPT ![p] =
                    [Called(inv[p], "get", VECTOR_COUNT_KEY)
                       EXCEPT !.currentCount = getVectorCount(DOC_METADATA),
                              !.newCount = NewCount(getVectorCount(DOC_METADATA),
                                                    Len(inv[p].vectors)),
                              !.pc = "putCount"]]
       \/ inv' = [inv EXCEPT ![p] = EmbedCaught(inv[p])]
    /\ UNCHANGED <<now, aliased, DOC_INDEX, DOC_METADATA, DOCUMENT_METADATA, nOps>>

\* lines 143-157: the upsert metric, then the metadata record is built
OnCounted(r, stamp) ==
    [r EXCEPT !.emitted = Append(@, emitQuotaMetric(
                  r.newCount, Len(r.vectors),
                  <<"upsert_document", r.documentId>>)),
              !.vectorIds = r.vectors,
              !.uploadedAt = stamp,
              !.pc = "putMetadata"]

\* updateVectorCount, lines 21-22, returning into embedAndStore
EmbedWriteCount(p) ==
    /\ inv[p].op = "embedAndStore"
    /\ inv[p].pc = "putCount"
    /\ \/ /\ DOC_METADATA' = PutCount(DOC_METADATA, inv[p].newCount)
          /\ inv' = [inv EXCEPT ![p] =
                       OnCounted(Called(inv[p], "put", VECTOR_COUNT_KEY), now)]
       \/ /\ inv' = [inv EXCEPT ![p] = EmbedCaught(inv[p])]
          /\ UNCHANGED DOC_METADATA
    /\ UNCHANGED <<now, aliased, DOC_INDEX, DOCUMENT_METADATA, nOps>>

\* lines 151-157: docMetadata
DocMetadata(r) ==
    [hasUploadedAt |-> TRUE, uploadedAt |-> r.uploadedAt,
     chunksCount |-> Len(r.vectors),
     hasVectorIds |-> TRUE, vectorIds |-> r.vectorIds,
     hasChunks |-> FALSE, chunks |-> <<>>]

\* line 159: DOC_METADATA.put(metadata.documentId, ...), then the result
EmbedPutMetadata(p) ==
    /\ inv[p].op = "embedAndStore"
    /\ inv[p].pc = "putMetadata"
    /\ \/ /\ DOC_METADATA' = [DOC_METADATA EXCEPT ![inv[p].documentId] =
                                JsonValue(DocMetadata(inv[p]))]
          /\ inv' = [inv EXCEPT ![p] =
                       [Called(inv[p], "put", inv[p].documentId)
                          EXCEPT !.pc = "done",
                                 !.result = [returned |-> TRUE, success |-> TRUE,
                                             deletedCount |-> 0,
                                             vectorIds |-> inv[p].vectors,
                                             error |-> ""]]]
       \/ /\ inv' = [inv EXCEPT ![p] = EmbedCaught(inv[p])]
          /\ UNCHANGED DOC_METADATA
    /\ UNCHANGED <<now, aliased, DOC_INDEX, DOCUMENT_METADATA, nOps>>

----------------------------------------------------------------------------
(* deleteDocumentVectors *)

\* the catch block of deleteDocumentVectors, lines 295-302
DeleteCaught(r) == Failure(Failed(r), "exception", 0)

\* return of { success: true, deletedCount }
Deleted(r, deletedCount) ==
    [r EXCEPT !.pc = "done",
              !.result = [returned |-> TRUE, success |-> TRUE,
                          deletedCount |-> deletedCount,
                          vectorIds |-> <<>>, error |-> ""]]

\* handleDeleteDocument, lines 236-240, up to the metadata lookup
StartDelete(p, documentId) ==
    /\ FirstFree(p)
    /\ nOps < MaxOps
    /\ nOps' = nOps + 1
    /\ inv' = [inv EXCEPT ![p] =
                 [Started("deleteDocumentVectors", "getMetadata")
                    EXCEPT !.documentId = documentId]]
    /\ UNCHANGED <<now, aliased, DOC_INDEX, DOC_METADATA, DOCUMENT_METADATA>>

\* line 269 testing !metadata only
NoVectorIds_OnlyNull(m) == m.t = "null"

\* !metadata || !metadata.vectorIds, line 269
NoVectorIds(m) ==
    \/ m.t = "null"
    \/ m.t = "number"
    \/ m.t = "object" /\ ~m.obj.hasVectorIds

\* lines 269-273 on the looked-up metadata
OnMetadata(r, m) ==
    IF NoVectorIds(m) THEN Deleted(r, 0)
    ELSE [r EXCEPT !.vectorIds = m.obj.vectorIds, !.pc = "deleteByIds"]

\* line 267: DOC_METADATA.get(documentId, 'json')
DeleteGetMetadata(p) ==
    /\ inv[p].op = "deleteDocumentVectors"
    /\ inv[p].pc = "getMetadata"
    /\ \/ /\ GetJson(DOC_METADATA, inv[p].documentId).t # "throw"
          /\ inv' = [inv EXCEPT ![p] =
                       OnMetadata(Called(inv[p], "get", inv[p].documentId),
                                  GetJson(DOC_METADATA, inv[p].documentId))]
       \/ inv' = [inv EXCEPT ![p] = DeleteCaught(inv[p])]
    /\ UNCHANGED <<now, aliased, DOC_INDEX, DOC_METADATA, DOCUMENT_METADATA, nOps>>

\* line 276 rejected, with the rejection swallowed
OnDeleteByIdsFailed_Swallowed(r) == [Failed(r) EXCEPT !.pc = "getVectorCount"]

\* line 276 rejected
OnDeleteByIdsFailed(r) == DeleteCaught(r)

\* line 276: DOC_INDEX.deleteByIds(vectorIds), then updateVectorCount is entered
DeleteByIds(p) ==
    /\ inv[p].op = "deleteDocumentVectors"
    /\ inv[p].pc = "deleteByIds"
    /\ \/ /\ DOC_INDEX' = DOC_INDEX \ Range(inv[p].vectorIds)
          /\ inv' = [inv EXCEPT ![p] =
                       [Called(inv[p], "deleteByIds", "DOC_INDEX")
                          EXCEPT !.pc = "getVectorCount"]]
       \/ /\ inv' = [inv EXCEPT ![p] = OnDeleteByIdsFailed(inv[p])]
          /\ UNCHANGED DOC_INDEX
    /\ UNCHANGED <<now, aliased, DOC_METADATA, DOCUMENT_METADATA, nOps>>

\* updateVectorCount, lines 19-20, with delta = -vectorIds.length
DeleteReadCount(p) ==
    /\ inv[p].op = "deleteDocumentVectors"
    /\ inv[p].pc = "getVectorCount"
    /\ \/ inv' = [inv EXCEPT ![p] =
                    [Called(inv[p], "get", VECTOR_COUNT_KEY)
                       EXCEPT !.currentCount = getVectorCount(DOC_METADATA),
                              !.newCount = NewCount(getVectorCount(DOC_METADATA),
                                                    -Len(inv[p].vectorIds)),
                              !.pc = "putCount"]]
       \/ inv' = [inv EXCEPT ![p] = DeleteCaught(inv[p])]
    /\ UNCHANGED <<now, aliased, DOC_INDEX, DOC_METADATA, DOCUMENT_METADATA, nOps>>

\* lines 281-286: the delete metric
OnDeleteCounted(r) ==
    [r EXCEPT !.emitted = Append(@, emitQuotaMetric(
                  r.newCount, -Len(r.vectorIds),
                  <<"delete_document", r.documentId>>)),
              !.pc = "deleteMetadata"]

\* updateVectorCount, lines 21-22, returning into deleteDocumentVectors
DeleteWriteCount(p) ==
    /\ inv[p].op = "deleteDocumentVectors"
    /\ inv[p].pc = "putCount"
    /\ \/ /\ DOC_METADATA' = PutCount(DOC_METADATA, inv[p].newCount)
          /\ inv' = [inv EXCEPT ![p] =
                       OnDeleteCounted(Called(inv[p], "put", VECTOR_COUNT_KEY))]
       \/ /\ inv' = [inv EXCEPT ![p] = DeleteCaught(inv[p])]
          /\ UNCHANGED DOC_METADATA
    /\ UNCHANGED <<now, aliased, DOC_INDEX, DOCUMENT_METADATA, nOps>>

\* line 289: DOC_METADATA.delete(documentId), then the result
DeleteMetadata(p) ==
    /\ inv[p].op = "deleteDocumentVectors"
    /\ inv[p].pc = "deleteMetadata"
    /\ \/ /\ DOC_METADATA' = [DOC_METADATA EXCEPT ![inv[p].documentId] = Absent]
          /\ inv' = [inv EXCEPT ![p] =
                       Deleted(Called(inv[p], "delete", inv[p].documentId),
                               Len(inv[p].vectorIds))]
       \/ /\ inv' = [inv EXCEPT ![p] = DeleteCaught(inv[p])]
          /\ UNCHANGED DOC_METADATA
    /\ UNCHANGED <<now, aliased, DOC_INDEX, DOCUMENT_METADATA, nOps>>

----------------------------------------------------------------------------
(* cleanupOldVectors *)

\* the namespace env.DOCUMENT_METADATA resolves to
CleanupStore == IF aliased THEN DOC_METADATA ELSE DOCUMENT_METADATA

\* KV list() returns the keys in lexicographic order
KeyOrder == <<VECTOR_COUNT_KEY, "arc1", "docA", "docB", "old2">>

ListKeys(store) == SelectSeq(KeyOrder, LAMBDA k : store[k].kind # "absent")

\* return deletedCount, lines 63 and 66
CleanupReturn(r) ==
    [r EXCEPT !.pc = "done",
              !.result = [returned |-> TRUE, success |-> TRUE,
                          deletedCount |-> r.deletedCount,
                          vectorIds |-> <<>>, error |-> ""]]

\* the outer catch block, lines 64-67
CleanupCaught(r) == CleanupReturn(Failed(r))

\* the for loop of line 35 moves to the next key, or the sweep returns
NextKey(r) ==
    IF r.idx + 1 > Len(r.keys) THEN CleanupReturn(r)
    ELSE [r EXCEPT !.idx = r.idx + 1, !.vectorIds = <<>>, !.pc = "get"]

\* scheduled / handleScheduledCleanup, and lines 25-33 up to the listing
StartCleanup(p) ==
    /\ FirstFree(p)
    /\ nOps < MaxOps
    /\ nOps' = nOps + 1
    /\ inv' = [inv EXCEPT ![p] =
                 [Started("cleanupOldVectors", "list")
                    EXCEPT !.cutoff = now - maxAgeInDays]]
    /\ UNCHANGED <<now, aliased, DOC_INDEX, DOC_METADATA, DOCUMENT_METADATA>>

\* line 33: DOCUMENT_METADATA.list()
CleanupList(p) ==
    /\ inv[p].op = "cleanupOldVectors"
    /\ inv[p].pc = "list"
    /\ \/ inv' = [inv EXCEPT ![p] =
                    NextKey([Called(inv[p], "list", "DOCUMENT_METADATA")
                               EXCEPT !.keys = ListKeys(CleanupStore)])]
       \/ inv' = [inv EXCEPT ![p] = CleanupCaught(inv[p])]
    /\ UNCHANGED <<now, aliased, DOC_INDEX, DOC_METADATA, DOCUMENT_METADATA, nOps>>

\* line 43: metadata.chunks?.map(chunk => chunk.id) || []
ExtractVectorIds(obj) == IF obj.hasChunks THEN obj.chunks ELSE <<>>

\* lines 38-45 and 55-58 on the metadata of the current key
OnCleanupMetadata(r, m) ==
    IF m.t = "object" /\ m.obj.hasUploadedAt /\ m.obj.uploadedAt < r.cutoff
    THEN [r EXCEPT !.vectorIds = ExtractVectorIds(m.obj),
                   !.pc = IF Len(ExtractVectorIds(m.obj)) > 0
                          THEN "deleteByIds" ELSE "deleteMetadata"]
    ELSE NextKey(r)

\* line 36: DOCUMENT_METADATA.get(key.name, 'json')
CleanupGet(p) ==
    /\ inv[p].op = "cleanupOldVectors"
    /\ inv[p].pc = "get"
    /\ \/ /\ GetJson(CleanupStore, inv[p].keys[inv[p].idx]).t # "throw"
          /\ inv' = [inv EXCEPT ![p] =
                       OnCleanupMetadata(
                           Called(inv[p], "get", inv[p].keys[inv[p].idx]),
                           GetJson(CleanupStore, inv[p].keys[inv[p].idx]))]
       \/ inv' = [inv EXCEPT ![p] = CleanupCaught(inv[p])]
    /\ UNCHANGED <<now, aliased, DOC_INDEX, DOC_METADATA, DOCUMENT_METADATA, nOps>>

\* the inner catch block, lines 52-54: log, then go on to line 58
CleanupInnerCaught(r) == [Failed(r) EXCEPT !.pc = "deleteMetadata"]

\* lines 47-48: DOC_INDEX.deleteByIds(vectorIds); deletedCount += length
CleanupDeleteByIds(p) ==
    /\ inv[p].op = "cleanupOldVectors"
    /\ inv[p].pc = "deleteByIds"
    /\ \/ /\ DOC_INDEX' = DOC_INDEX \ Range(inv[p].vectorIds)
          /\ inv' = [inv EXCEPT ![p] =
                       [Called(inv[p], "deleteByIds", "DOC_INDEX")
                          EXCEPT !.deletedCount = @ + Len(inv[p].vectorIds),
                                 !.pc = "getVectorCount"]]
       \/ /\ inv' = [inv EXCEPT ![p] = CleanupInnerCaught(inv[p])]
          /\ UNCHANGED DOC_INDEX
    /\ UNCHANGED <<now, aliased, DOC_METADATA, DOCUMENT_METADATA, nOps>>

\* updateVectorCount, lines 19-20, called from line 51
CleanupReadCount(p) ==
    /\ inv[p].op = "cleanupOldVectors"
    /\ inv[p].pc = "getVectorCount"
    /\ \/ inv' = [inv EXCEPT ![p] =
                    [Called(inv[p], "get", VECTOR_COUNT_KEY)
                       EXCEPT !.currentCount = getVectorCount(DOC_METADATA),
                              !.newCount = NewCount(getVectorCount(DOC_METADATA),
                                                    -Len(inv[p].vectorIds)),
                              !.pc = "putCount"]]
       \/ inv' = [inv EXCEPT ![p] = CleanupInnerCaught(inv[p])]
    /\ UNCHANGED <<now, aliased, DOC_INDEX, DOC_METADATA, DOCUMENT_METADATA, nOps>>

\* updateVectorCount, lines 21-22, returning to line 51
CleanupWriteCount(p) ==
    /\ inv[p].op = "cleanupOldVectors"
    /\ inv[p].pc = "putCount"
    /\ \/ /\ DOC_METADATA' = PutCount(DOC_METADATA, inv[p].newCount)
          /\ inv' = [inv EXCEPT ![p] =
                       [Called(inv[p], "put", VECTOR_COUNT_KEY)
                          EXCEPT !.pc = "deleteMetadata"]]
       \/ /\ inv' = [inv EXCEPT ![p] = CleanupInnerCaught(inv[p])]
          /\ UNCHANGED DOC_METADATA
    /\ UNCHANGED <<now, aliased, DOC_INDEX, DOCUMENT_METADATA, nOps>>

\* line 58: DOCUMENT_METADATA.delete(key.name)
CleanupDeleteMetadata(p) ==
    /\ inv[p].op = "cleanupOldVectors"
    /\ inv[p].pc = "deleteMetadata"
    /\ \/ /\ aliased
          /\ DOC_METADATA' =
               [DOC_METADATA EXCEPT ![inv[p].keys[inv[p].idx]] = Absent]
          /\ inv' = [inv EXCEPT ![p] =
                       NextKey(Called(inv[p], "delete", inv[p].keys[inv[p].idx]))]
          /\ UNCHANGED DOCUMENT_METADATA
       \/ /\ ~aliased
          /\ DOCUMENT_METADATA' =
               [DOCUMENT_METADATA EXCEPT ![inv[p].keys[inv[p].idx]] = Absent]
          /\ inv' = [inv EXCEPT ![p] =
                       NextKey(Called(inv[p], "delete", inv[p].keys[inv[p].idx]))]
          /\ UNCHANGED DOC_METADATA
       \/ /\ inv' = [inv EXCEPT ![p] = CleanupCaught(inv[p])]
          /\ UNCHANGED <<DOC_METADATA, DOCUMENT_METADATA>>
    /\ UNCHANGED <<now, aliased, DOC_INDEX, nOps>>

----------------------------------------------------------------------------
(* Environment and specification *)

\* time passes
Tick ==
    /\ \E t \in ClockValues : t > now /\ now' = t
    /\ UNCHANGED <<aliased, DOC_INDEX, DOC_METADATA, DOCUMENT_METADATA, inv, nOps>>

EmptyStore == [k \in Keys |-> Absent]

\* the record of a document that predates the behaviour, in the shape
\* cleanupOldVectors reads: an upload time and a list of chunks with ids
SeedRecord(d) ==
    JsonValue([NoObj EXCEPT !.hasUploadedAt = TRUE, !.uploadedAt = 0,
                            !.hasChunks = TRUE,
                            !.chunks = VectorIdsOf(d, 0, SeedChunks)])

SeedStore(seeds) ==
    [k \in Keys |-> IF k \in seeds THEN SeedRecord(k) ELSE Absent]

SeedVectors(seeds) ==
    UNION {Range(VectorIdsOf(d, 0, SeedChunks)) : d \in seeds}

\* the record embedAndStore wrote for a document it ingested the day before
\* the behaviour starts
PriorRecord(d) ==
    JsonValue([NoObj EXCEPT !.hasUploadedAt = TRUE, !.uploadedAt = -1,
                            !.chunksCount = SeedChunks,
                            !.hasVectorIds = TRUE,
                            !.vectorIds = VectorIdsOf(d, -1, SeedChunks)])

WithPrior(store, prior) ==
    [k \in Keys |-> IF k \in prior THEN PriorRecord(k) ELSE store[k]]

PriorVectors(prior) ==
    UNION {Range(VectorIdsOf(d, -1, SeedChunks)) : d \in prior}

\* the counter that accounts for n vectors; no key before the first update
CountStore(store, n) ==
    IF n = 0 THEN store ELSE PutCount(store, Num(n))

Init ==
    /\ now = 0
    /\ aliased \in BOOLEAN
    /\ nOps = 0
    /\ inv = [p \in Procs |-> IdleInv]
    /\ \E seeds \in {{}, SeedIds}, prior \in {{}, PriorIds} :
         /\ DOC_INDEX = SeedVectors(seeds) \cup PriorVectors(prior)
         /\ DOC_METADATA =
              CountStore(WithPrior(IF aliased THEN SeedStore(seeds)
                                              ELSE EmptyStore, prior),
                         Cardinality(SeedVectors(seeds) \cup PriorVectors(prior)))
         /\ DOCUMENT_METADATA =
              IF aliased THEN EmptyStore ELSE SeedStore(seeds)

\* the entry points: the fetch handler's routes and the scheduled handler
Starts(p) ==
    \/ \E d \in DocIds, n \in ChunkCounts : StartEmbed(p, d, n)
    \/ \E d \in DeleteIds : StartDelete(p, d)
    \/ StartCleanup(p)

\* an invocation resumes when the call it awaits settles
Steps(p) ==
    \/ EmbedCheckQuota(p)
    \/ EmbedRun(p)
    \/ EmbedUpsert(p)
    \/ EmbedReadCount(p)
    \/ EmbedWriteCount(p)
    \/ EmbedPutMetadata(p)
    \/ DeleteGetMetadata(p)
    \/ DeleteByIds(p)
    \/ DeleteReadCount(p)
    \/ DeleteWriteCount(p)
    \/ DeleteMetadata(p)
    \/ CleanupList(p)
    \/ CleanupGet(p)
    \/ CleanupDeleteByIds(p)
    \/ CleanupReadCount(p)
    \/ CleanupWriteCount(p)
    \/ CleanupDeleteMetadata(p)

Next == Tick \/ \E p \in Procs : Starts(p) \/ Steps(p)

\* requests arrive at any time and interleave at their awaited calls
Spec == Init /\ [][Next]_vars

\* no invocation is in flight
Quiet == \A p \in Procs : Free(p)

NextSeq == Tick \/ \E p \in Procs : (Quiet /\ Starts(p)) \/ Steps(p)

\* invocations run one at a time
SpecSeq == Init /\ [][NextSeq]_vars

----------------------------------------------------------------------------
(* queryDocuments, getDocumentContext, getVectorUsageStatus *)

\* the limit or topK of a request: handleQuery passes any JSON value on, and
\* Math.min turns one that is not a number into NaN
LimitValues ==
    {Num(n) : n \in {-1, 0, 1, 4, 10, MAX_VECTORS - 1, MAX_VECTORS,
                     MAX_VECTORS + 1, 2 * MAX_VECTORS}} \cup {NaN}

\* the clamp without the ceiling
SafeLimit_Unclamped(limit) == limit

\* line 181: Math.min(limit, MAX_VECTORS)
SafeLimit(limit) == JsMin(limit, Num(MAX_VECTORS))

\* line 222: Math.min(topK, MAX_VECTORS)
SafeTopK(topK) == JsMin(topK, Num(MAX_VECTORS))

\* handleQuery, line 191, and queryDocuments up to the embedding call
StartQuery(p, limit) ==
    /\ FirstFree(p)
    /\ nOps < MaxOps
    /\ nOps' = nOps + 1
    /\ inv' = [inv EXCEPT ![p] =
                 [Started("queryDocuments", "AI.run")
                    EXCEPT !.limit = limit, !.safeLimit = SafeLimit(limit)]]
    /\ UNCHANGED <<now, aliased, DOC_INDEX, DOC_METADATA, DOCUMENT_METADATA>>

\* getDocumentContext, lines 222-223, into queryDocuments up to the
\* embedding call
StartContext(p, topK) ==
    /\ FirstFree(p)
    /\ nOps < MaxOps
    /\ nOps' = nOps + 1
    /\ inv' = [inv EXCEPT ![p] =
                 [Started("getDocumentContext", "AI.run")
                    EXCEPT !.limit = topK,
                           !.safeLimit = SafeLimit(SafeTopK(topK))]]
    /\ UNCHANGED <<now, aliased, DOC_INDEX, DOC_METADATA, DOCUMENT_METADATA>>

Querying(p) == inv[p].op \in {"queryDocuments", "getDocumentContext"}

\* the catch block of queryDocuments, lines 210-213: return []
QueryCaught(r) ==
    [Failed(r) EXCEPT !.pc = "done", !.matches = 0,
                      !.result = [NoResult EXCEPT !.returned = TRUE,
                                                  !.success = TRUE]]

\* line 183: AI.run returns the embedding, returns a malformed response
\* (line 188 throws) or rejects
QueryRun(p) ==
    /\ Querying(p)
    /\ inv[p].pc = "AI.run"
    /\ \/ inv' = [inv EXCEPT ![p] =
                    [Called(inv[p], "run", "AI") EXCEPT !.pc = "query"]]
       \/ inv' = [inv EXCEPT ![p] = QueryCaught(Called(inv[p], "run", "AI"))]
       \/ inv' = [inv EXCEPT ![p] = QueryCaught(inv[p])]
    /\ UNCHANGED <<now, aliased, DOC_INDEX, DOC_METADATA, DOCUMENT_METADATA, nOps>>

\* the number of matches the index returns for topK
Matches(topK) ==
    IF topK.nan \/ topK.v < 0 THEN 0
    ELSE IF topK.v < Cardinality(DOC_INDEX) THEN topK.v
    ELSE Cardinality(DOC_INDEX)

\* lines 192-209: DOC_INDEX.query(embedding, { topK: safeLimit }) and the
\* mapping of the matches, or the rejection of the call
QueryIndex(p) ==
    /\ Querying(p)
    /\ inv[p].pc = "query"
    /\ \/ inv' = [inv EXCEPT ![p] =
                    [Called(inv[p], "query", inv[p].safeLimit)
                       EXCEPT !.pc = "done",
                              !.matches = Matches(inv[p].safeLimit),
                              !.result = [NoResult EXCEPT !.returned = TRUE,
                                                          !.success = TRUE]]]
       \/ inv' = [inv EXCEPT ![p] = QueryCaught(inv[p])]
    /\ UNCHANGED <<now, aliased, DOC_INDEX, DOC_METADATA, DOCUMENT_METADATA, nOps>>

\* Math.round(x * 100) / 100 of x = count / MAX_VECTORS * 100, kept as the
\* number of hundredths of a percent
PercentageUsed(count) ==
    IF count.nan THEN NaN
    ELSE Num((2 * count.v * 100 * 100 + MAX_VECTORS) \div (2 * MAX_VECTORS))

\* the result with the quota that is left in place of the count
UsageStatus_Swapped(currentCount) ==
    [currentCount |-> JsSub(Num(MAX_VECTORS), currentCount),
     maxCount |-> MAX_VECTORS,
     availableQuota |-> currentCount,
     percentageUsedTimes100 |-> PercentageUsed(currentCount)]

\* lines 249-257: the result of getVectorUsageStatus
UsageStatus(currentCount) ==
    [currentCount |-> currentCount,
     maxCount |-> MAX_VECTORS,
     availableQuota |-> JsSub(Num(MAX_VECTORS), currentCount),
     percentageUsedTimes100 |-> PercentageUsed(currentCount)]

\* getVectorUsageStatus up to the read of the counter
StartUsage(p) ==
    /\ FirstFree(p)
    /\ nOps < MaxOps
    /\ nOps' = nOps + 1
    /\ inv' = [inv EXCEPT ![p] = Started("getVectorUsageStatus", "getVectorCount")]
    /\ UNCHANGED <<now, aliased, DOC_INDEX, DOC_METADATA, DOCUMENT_METADATA>>

\* line 248: getVectorCount, then the result; a rejected read is not caught
\* and leaves the function as an exception
UsageRead(p) ==
    /\ inv[p].op = "getVectorUsageStatus"
    /\ inv[p].pc = "getVectorCount"
    /\ \/ inv' = [inv EXCEPT ![p] =
                    [Called(inv[p], "get", VECTOR_COUNT_KEY)
                       EXCEPT !.pc = "done",
                              !.usage = UsageStatus(getVectorCount(DOC_METADATA)),
                              !.result = [NoResult EXCEPT !.returned = TRUE,
                                                          !.success = TRUE]]]
       \/ inv' = [inv EXCEPT ![p] = [Failed(inv[p]) EXCEPT !.pc = "done"]]
    /\ UNCHANGED <<now, aliased, DOC_INDEX, DOC_METADATA, DOCUMENT_METADATA, nOps>>

\* counter values the read-only operations are run against
CounterValues == {0, 75, MAX_VECTORS, MAX_VECTORS + MaxSmall}

\* the least of a and b
Least(a, b) == IF a < b THEN a ELSE b

\* the store after docB was ingested with up to MAX_VECTORS chunks and docA,
\* admitted at the same count, with the rest: the counter reads c
IngestedStore(c) ==
    [k \in Keys |->
        CASE k = VECTOR_COUNT_KEY /\ c > 0 -> TextValue(NumToString(Num(c)))
          [] k = "docB" /\ c > 0 ->
               JsonValue([NoObj EXCEPT
                   !.hasUploadedAt = TRUE, !.uploadedAt = 0,
                   !.chunksCount = Least(c, MAX_VECTORS),
                   !.hasVectorIds = TRUE,
                   !.vectorIds = VectorIdsOf("docB", 0, Least(c, MAX_VECTORS))])
          [] k = "docA" /\ c > MAX_VECTORS ->
               JsonValue([NoObj EXCEPT
                   !.hasUploadedAt = TRUE, !.uploadedAt = 0,
                   !.chunksCount = c - MAX_VECTORS,
                   !.hasVectorIds = TRUE,
                   !.vectorIds = VectorIdsOf("docA", 0, c - MAX_VECTORS)])
          [] OTHER -> Absent]

IngestedVectors(c) ==
    Range(VectorIdsOf("docB", 0, Least(c, MAX_VECTORS)))
        \cup (IF c > MAX_VECTORS
              THEN Range(VectorIdsOf("docA", 0, c - MAX_VECTORS)) ELSE {})

InitRead ==
    /\ now = 0
    /\ aliased = TRUE
    /\ nOps = 0
    /\ inv = [p \in Procs |-> IdleInv]
    /\ \E c \in CounterValues :
         /\ DOC_INDEX = IngestedVectors(c)
         /\ DOC_METADATA = IngestedStore(c)
    /\ DOCUMENT_METADATA = EmptyStore

NextRead ==
    \E p \in Procs :
        \/ \E limit \in LimitValues : StartQuery(p, limit)
        \/ \E topK \in LimitValues : StartContext(p, topK)
        \/ StartUsage(p)
        \/ QueryRun(p)
        \/ QueryIndex(p)
        \/ UsageRead(p)

\* the read-only routes, interleaved at their awaited calls
SpecRead == InitRead /\ [][NextRead]_vars

----------------------------------------------------------------------------
(* chunkText *)

\* the characters of the texts: a letter, a blank, two sentence terminators
Alphabet == {"a", " ", ".", "?"}

RECURSIVE TextsOfLength(_)
TextsOfLength(n) ==
    IF n = 0 THEN {<<>>}
    ELSE {Append(t, c) : t \in TextsOfLength(n - 1), c \in Alphabet}

\* the texts of at most MaxTextLen characters
Texts == UNION {TextsOfLength(n) : n \in 0..MaxTextLen}

\* maxChunkSize: small sizes, and the default of 1000
ChunkSizes == (1..MaxChunkSize) \cup {1000}

\* [.!?]
IsTerminator(c) == c \in {".", "!", "?"}

\* \s
IsSpace(c) == c = " "

\* the first position from i on whose character is not in class, or
\* Len(text) + 1; class is "terminator" or "other"
RECURSIVE RunEnd(_, _, _)
RunEnd(text, i, terminators) ==
    IF i > Len(text) \/ IsTerminator(text[i]) # terminators THEN i
    ELSE RunEnd(text, i + 1, terminators)

\* text.match(/[^.!?]+[.!?]+/g) from position i on: the successive leftmost
\* matches, each a longest run of other characters followed by a longest
\* run of terminators
RECURSIVE Matches_(_, _)
Matches_(text, i) ==
    IF i > Len(text) THEN <<>>
    ELSE IF IsTerminator(text[i]) THEN Matches_(text, i + 1)
    ELSE LET e == RunEnd(text, i, FALSE)
             f == RunEnd(text, e, TRUE)
         IN  IF e > Len(text) THEN <<>>
             ELSE <<SubSeq(text, i, f - 1)>> \o Matches_(text, f)

\* line 61: text.match(...) || [text]
Sentences(text) ==
    IF Matches_(text, 1) = <<>> THEN <<text>> ELSE Matches_(text, 1)

RECURSIVE TrimStart(_)
TrimStart(s) ==
    IF s # <<>> /\ IsSpace(Head(s)) THEN TrimStart(Tail(s)) ELSE s

RECURSIVE TrimEnd(_)
TrimEnd(s) ==
    IF s # <<>> /\ IsSpace(s[Len(s)]) THEN TrimEnd(SubSeq(s, 1, Len(s) - 1))
    ELSE s

\* String.prototype.trim
Trim(s) == TrimEnd(TrimStart(s))

\* the for loop of lines 64-71 from sentence i on
RECURSIVE ChunkLoop(_, _, _, _, _)
ChunkLoop(sentences, i, maxChunkSize, currentChunk, chunks) ==
    IF i > Len(sentences)
    THEN \* lines 73-75
         IF Len(Trim(currentChunk)) > 0
         THEN Append(chunks, Trim(currentChunk)) ELSE chunks
    ELSE IF /\ Len(currentChunk \o sentences[i]) > maxChunkSize
            /\ Len(currentChunk) > 0
         THEN ChunkLoop(sentences, i + 1, maxChunkSize, sentences[i],
                        Append(chunks, Trim(currentChunk)))
         ELSE ChunkLoop(sentences, i + 1, maxChunkSize,
                        currentChunk \o <<" ">> \o sentences[i], chunks)

\* chunkText, lines 59-78
chunkText(text, maxChunkSize) ==
    ChunkLoop(Sentences(text), 1, maxChunkSize, <<>>, <<>>)

\* a call of chunkText returns
ChunkTextCall(p) ==
    /\ inv[p].op = "chunkText"
    /\ inv[p].pc = "call"
    /\ inv' = [inv EXCEPT ![p] =
                 [inv[p] EXCEPT !.pc = "done",
                                !.chunks = chunkText(inv[p].text,
                                                     inv[p].maxChunkSize),
                                !.result = [NoResult EXCEPT !.returned = TRUE,
                                                            !.success = TRUE]]]
    /\ UNCHANGED <<now, aliased, DOC_INDEX, DOC_METADATA, DOCUMENT_METADATA, nOps>>

\* chunkText is about to be called with some text and some maximum size
InitChunk ==
    /\ now = 0
    /\ aliased = TRUE
    /\ nOps = 0
    /\ DOC_INDEX = {}
    /\ DOC_METADATA = EmptyStore
    /\ DOCUMENT_METADATA = EmptyStore
    /\ \E text \in Texts, maxChunkSize \in ChunkSizes :
         inv = [p \in Procs |->
                  IF p = 1
                  THEN [IdleInv EXCEPT !.op = "chunkText", !.pc = "call",
                                       !.text = text,
                                       !.maxChunkSize = maxChunkSize]
                  ELSE IdleInv]

NextChunk == \E p \in Procs : ChunkTextCall(p)

SpecChunk == InitChunk /\ [][NextChunk]_vars

----------------------------------------------------------------------------
(* Properties *)

IsEmbed(p) == inv[p].op = "embedAndStore"

IsDelete(p) == inv[p].op = "deleteDocumentVectors"

IsCleanup(p) == inv[p].op = "cleanupOldVectors"

\* the invocation in slot p has made a call that writes to a store
Mutated(p) ==
    \E i \in 1..Len(inv[p].calls) :
        inv[p].calls[i].c \in {"upsert", "deleteByIds", "put", "delete"}

UnchangedStores == UNCHANGED <<DOC_INDEX, DOC_METADATA, DOCUMENT_METADATA>>

\* C1, in every state: an embedAndStore whose admission check said
\* allowed = false has returned success = false and has written nothing:
\* no upsert, no put of the counter, no put of a metadata record.
C1_DeniedState ==
    \A p \in Procs :
        (IsEmbed(p) /\ inv[p].quotaCheck.checked /\ ~inv[p].quotaCheck.allowed)
        => /\ inv[p].pc = "done"
           /\ inv[p].result.returned
           /\ ~inv[p].result.success
           /\ ~Mutated(p)

\* C1, in every step: the step in which the admission check denies leaves
\* the index and both namespaces as they were.
C1_DeniedStep ==
    \A p \in Procs :
        (/\ IsEmbed(p)
         /\ inv[p].pc = "checkVectorQuota"
         /\ inv'[p].quotaCheck.checked
         /\ ~inv'[p].quotaCheck.allowed)
        => UnchangedStores

\* C1: ingestion admission is all-or-nothing. A denied embedAndStore
\* (requested > MAX_VECTORS - current count) upserts no vector, leaves the
\* persisted counter unchanged, writes no metadata record and returns
\* success = false.
C1_DeniedIngestHasNoEffect == []C1_DeniedState /\ [][C1_DeniedStep]_vars

\* C1 witness: a request of at most MAX_VECTORS chunks was denied because
\* the counter had left too little room.
C1_Witness ==
    \E p \in Procs :
        /\ IsEmbed(p)
        /\ inv[p].pc = "done"
        /\ inv[p].quotaCheck.checked
        /\ ~inv[p].quotaCheck.allowed
        /\ ~inv[p].quotaCheck.currentCount.nan
        /\ inv[p].quotaCheck.currentCount.v > 0
        /\ inv[p].requested <= MAX_VECTORS
        /\ inv[p].requested > MAX_VECTORS - inv[p].quotaCheck.currentCount.v

\* the invocation in slot p has made the call c on k
HasCalled(p, c, k) ==
    \E i \in 1..Len(inv[p].calls) : inv[p].calls[i] = [c |-> c, k |-> k]

\* the embedAndStore in slot p has run updateVectorCount to its end
CountedEmbed(p) == IsEmbed(p) /\ HasCalled(p, "put", VECTOR_COUNT_KEY)

\* p and q are two ingests that read the same counter at admission and then
\* updated it one after the other, p first
SameAdmissionCount(p, q) ==
    /\ p # q
    /\ CountedEmbed(p)
    /\ CountedEmbed(q)
    /\ inv[p].quotaCheck.currentCount = inv[q].quotaCheck.currentCount
    /\ inv[p].currentCount = inv[p].quotaCheck.currentCount
    /\ inv[q].currentCount = inv[p].newCount

\* C2: two interleaved ingests can both read the same pre-update counter,
\* both pass checkVectorQuota, both upsert and both run updateVectorCount:
\* nothing is reserved at admission and nothing is held back at the update,
\* so the second update persists count + n1 + n2 whatever MAX_VECTORS is.
\* The witness is the execution of the claim, ending above the capacity.
C2_BothAdmittedBothCounted ==
    \A p, q \in Procs :
        SameAdmissionCount(p, q)
        => /\ inv[p].quotaCheck.allowed
           /\ inv[q].quotaCheck.allowed
           /\ HasCalled(p, "upsert", "DOC_INDEX")
           /\ HasCalled(q, "upsert", "DOC_INDEX")
           /\ inv[q].newCount =
                Num(inv[p].quotaCheck.currentCount.v
                    + inv[p].requested + inv[q].requested)

\* C2 witness: both ingests have returned success, and the persisted counter
\* and the size of the index are both above MAX_VECTORS.
C2_Witness ==
    \E p, q \in Procs :
        /\ SameAdmissionCount(p, q)
        /\ inv[p].documentId # VECTOR_COUNT_KEY
        /\ inv[q].documentId # VECTOR_COUNT_KEY
        /\ inv[p].pc = "done" /\ inv[p].result.success
        /\ inv[q].pc = "done" /\ inv[q].result.success
        /\ ~getVectorCount(DOC_METADATA).nan
        /\ getVectorCount(DOC_METADATA).v > MAX_VECTORS
        /\ Cardinality(DOC_INDEX) > MAX_VECTORS

\* C3: when the upsert of an ingest fails, the invocation returns a failure
\* result, has adjusted no counter, emitted no upsert metric and written no
\* metadata record; and an ingest that has put the counter did so after its
\* upsert succeeded.
C3_UpsertFailureStopsIngest ==
    \A p \in Procs :
        IsEmbed(p)
        => /\ inv[p].failedAt = "upsert"
              => /\ inv[p].pc = "done"
                 /\ inv[p].result.returned
                 /\ ~inv[p].result.success
                 /\ ~Mutated(p)
                 /\ inv[p].emitted = <<>>
           /\ \A i \in 1..Len(inv[p].calls) :
                 inv[p].calls[i].c = "put"
                 => \E j \in 1..(i - 1) : inv[p].calls[j].c = "upsert"

\* C3 witness: an admitted ingest whose upsert was rejected has returned.
C3_Witness ==
    \E p \in Procs :
        /\ IsEmbed(p)
        /\ inv[p].failedAt = "upsert"
        /\ inv[p].pc = "done"
        /\ inv[p].quotaCheck.allowed
        /\ Len(inv[p].vectors) > 0

\* q is a deleteDocumentVectors of the document that the embedAndStore in
\* slot p ingested, started next after it, and both returned success
DeletedAfterIngest(p, q) ==
    /\ IsEmbed(p) /\ inv[p].pc = "done" /\ inv[p].result.success
    /\ IsDelete(q) /\ inv[q].pc = "done" /\ inv[q].result.success
    /\ ~inv[p].failed /\ ~inv[q].failed
    /\ inv[q].seq = inv[p].seq + 1
    /\ inv[q].documentId = inv[p].documentId

\* C4 (checked under SpecSeq): a successful ingest of N chunks for a
\* document followed by deleteDocument of that document returns the
\* persisted counter to its value before the ingest, and deleteDocument
\* reports deletedCount = N.
C4_RoundTrip ==
    \A p, q \in Procs :
        DeletedAfterIngest(p, q)
        => /\ inv[q].result.deletedCount = inv[p].requested
           /\ getVectorCount(DOC_METADATA) = inv[p].countAtStart

\* the delta the invocation in slot p passes to updateVectorCount
Delta(p) ==
    IF IsEmbed(p) THEN Len(inv[p].vectors) ELSE -Len(inv[p].vectorIds)

\* the invocation in slot p is inside updateVectorCount, between its read
\* and its put
Updating(p) == inv[p].pc = "putCount"

\* the put of updateVectorCount in slot p takes effect in this step
PutsCount(p) ==
    /\ Updating(p)
    /\ Len(inv'[p].calls) = Len(inv[p].calls) + 1

\* C5, in every state: the value updateVectorCount is about to persist and
\* return is max(0, current + delta) and is not negative.
C5_NewCountState ==
    \A p \in Procs :
        Updating(p)
        => /\ ~inv[p].currentCount.nan
              => inv[p].newCount =
                   Num(IF inv[p].currentCount.v + Delta(p) < 0 THEN 0
                       ELSE inv[p].currentCount.v + Delta(p))
           /\ inv[p].currentCount.nan => inv[p].newCount.nan
           /\ ~(inv[p].newCount.v < 0)

\* C5, in every step: the read of updateVectorCount yields 0 for an absent
\* key and n for the stored decimal string of n; its put stores the decimal
\* string of the new count, which reads back as the new count, and the
\* metric of the caller carries the returned value.
C5_UpdateStep ==
    \A p \in Procs :
        /\ (inv[p].pc = "getVectorCount" /\ inv'[p].pc = "putCount")
           => /\ DOC_METADATA[VECTOR_COUNT_KEY].kind = "absent"
                 => inv'[p].currentCount = Num(0)
              /\ \A n \in 0..(2 * MAX_VECTORS) :
                    DOC_METADATA[VECTOR_COUNT_KEY] = TextValue(NatToString(n))
                    => inv'[p].currentCount = Num(n)
        /\ PutsCount(p)
           => /\ DOC_METADATA'[VECTOR_COUNT_KEY].kind = "text"
              /\ getVectorCount(DOC_METADATA') = inv[p].newCount
              /\ ~(getVectorCount(DOC_METADATA').v < 0)
              /\ ~IsCleanup(p)
                 => inv'[p].emitted[Len(inv'[p].emitted)].count = inv[p].newCount

\* C5: updateVectorCount reads the current counter (0 when the key is
\* absent), persists and returns max(0, current + delta); the returned and
\* persisted value is never negative.
C5_AdjustCountClampsAtZero == []C5_NewCountState /\ [][C5_UpdateStep]_vars

\* C5 witness: an update whose delta would take the counter below zero
\* is about to persist 0.
C5_Witness ==
    \E p \in Procs :
        /\ Updating(p)
        /\ ~inv[p].currentCount.nan
        /\ inv[p].currentCount.v + Delta(p) < 0
        /\ inv[p].newCount = Num(0)

\* C6, in every state: the admission decision of an ingest is
\* allowed = (requested <= MAX_VECTORS - currentCount), with
\* availableQuota = MAX_VECTORS - currentCount.
C6_DecisionState ==
    \A p \in Procs :
        (IsEmbed(p) /\ inv[p].quotaCheck.checked)
        => LET q == inv[p].quotaCheck IN
           IF q.currentCount.nan
           THEN ~q.allowed /\ q.availableQuota.nan
           ELSE /\ q.allowed <=>
                     (inv[p].requested <= MAX_VECTORS - q.currentCount.v)
                /\ q.availableQuota = Num(MAX_VECTORS - q.currentCount.v)

\* C6, in every step: the check reads the persisted counter and writes
\* nothing.
C6_CheckStep ==
    \A p \in Procs :
        (/\ IsEmbed(p)
         /\ inv[p].pc = "checkVectorQuota"
         /\ inv'[p].quotaCheck.checked)
        => /\ inv'[p].quotaCheck.currentCount = getVectorCount(DOC_METADATA)
           /\ UnchangedStores

\* C6: checkVectorQuota(n) returns allowed = true exactly when
\* n <= MAX_VECTORS - currentCount, reports availableQuota =
\* MAX_VECTORS - currentCount, and does not change the persisted counter.
C6_AdmissionDecision == []C6_DecisionState /\ [][C6_CheckStep]_vars

\* C6 witness: a request that exactly fills the remaining quota is allowed.
C6_Witness ==
    \E p \in Procs :
        /\ IsEmbed(p)
        /\ inv[p].quotaCheck.checked
        /\ inv[p].quotaCheck.allowed
        /\ inv[p].quotaCheck.currentCount.v > 0
        /\ inv[p].requested = MAX_VECTORS - inv[p].quotaCheck.currentCount.v

\* the value under key is not a metadata record, or is a record that
\* carries no vector-ID list
NoRecordOrNoList(store, key) ==
    \/ store[key].kind # "json"
    \/ ~store[key].obj.hasVectorIds

\* the lookup of the deleteDocumentVectors in slot p returns in this step
LooksUp(p) ==
    /\ IsDelete(p)
    /\ inv[p].pc = "getMetadata"
    /\ Len(inv'[p].calls) = Len(inv[p].calls) + 1

\* C7, in every step: when the lookup of a deleteDocument finds no record,
\* or a record without a vector-ID list, the invocation returns
\* success = true with deletedCount = 0 in that step and the index and
\* both namespaces stay as they were.
C7_NoRecordStep ==
    \A p \in Procs :
        (LooksUp(p) /\ NoRecordOrNoList(DOC_METADATA, inv[p].documentId))
        => /\ inv'[p].pc = "done"
           /\ inv'[p].result.returned
           /\ inv'[p].result.success
           /\ inv'[p].result.deletedCount = 0
           /\ inv'[p].emitted = <<>>
           /\ UnchangedStores

\* C7, in every state: a deleteDocument that returned without having found
\* a vector-ID list and without a failed call reports success with
\* deletedCount = 0 and has made no writing call.
C7_NoRecordState ==
    \A p \in Procs :
        (IsDelete(p) /\ inv[p].pc = "done" /\ ~inv[p].failed
                     /\ inv[p].vectorIds = <<>>)
        => /\ inv[p].result.success
           /\ inv[p].result.deletedCount = 0
           /\ ~Mutated(p)

\* C7: idempotent deletion. deleteDocument on a document ID that has no
\* metadata record, or a record without a vector-ID list, returns
\* success = true with deletedCount = 0 and mutates neither the vector
\* store, nor the counter, nor the metadata store.
C7_DeleteUnknownIsNoOp == []C7_NoRecordState /\ [][C7_NoRecordStep]_vars

\* C7 witness: one deleteDocument of a document with no record and one of a
\* document whose record has no vector-ID list have both returned success
\* with deletedCount = 0, and that record is still there.
C7_Witness ==
    \E p, q \in Procs :
        /\ IsDelete(p) /\ inv[p].pc = "done" /\ ~inv[p].failed
        /\ IsDelete(q) /\ inv[q].pc = "done" /\ ~inv[q].failed
        /\ inv[p].result.success /\ inv[p].result.deletedCount = 0
        /\ inv[q].result.success /\ inv[q].result.deletedCount = 0
        /\ DOC_METADATA[inv[p].documentId].kind = "absent"
        /\ DOC_METADATA[inv[q].documentId].kind = "json"
        /\ ~DOC_METADATA[inv[q].documentId].obj.hasVectorIds

\* C8, in every state: a deleteDocument whose vector removal failed has
\* returned success = false with deletedCount = 0, has made no writing call
\* and emitted no metric; and a deleteDocument that removed a metadata
\* record did so after its vector removal had succeeded.
C8_FailedRemovalState ==
    \A p \in Procs :
        IsDelete(p)
        => /\ inv[p].failedAt = "deleteByIds"
              => /\ inv[p].pc = "done"
                 /\ inv[p].result.returned
                 /\ ~inv[p].result.success
                 /\ inv[p].result.deletedCount = 0
                 /\ ~Mutated(p)
                 /\ inv[p].emitted = <<>>
           /\ \A i \in 1..Len(inv[p].calls) :
                 inv[p].calls[i].c = "delete"
                 => \E j \in 1..(i - 1) : inv[p].calls[j].c = "deleteByIds"

\* C8, in every step: the step in which the vector removal of a
\* deleteDocument fails leaves the index, the metadata record and the
\* counter as they were.
C8_FailedRemovalStep ==
    \A p \in Procs :
        (/\ IsDelete(p)
         /\ inv[p].pc = "deleteByIds"
         /\ inv'[p].failedAt = "deleteByIds")
        => UnchangedStores

\* C8: in deleteDocument the metadata record is removed only after the
\* vector removal has succeeded; if the vector removal fails the invocation
\* returns success = false with deletedCount = 0 and leaves the metadata
\* record, with its vector-ID list, and the counter unchanged.
C8_RecordKeptWhenRemovalFails ==
    []C8_FailedRemovalState /\ [][C8_FailedRemovalStep]_vars

\* C8 witness: the vector removal of a deleteDocument failed, and the record
\* still carries the list it had found, whose vectors are still indexed.
C8_Witness ==
    \E p \in Procs :
        /\ IsDelete(p)
        /\ inv[p].failedAt = "deleteByIds"
        /\ inv[p].pc = "done"
        /\ inv[p].documentId # VECTOR_COUNT_KEY
        /\ Len(inv[p].vectorIds) > 0
        /\ DOC_METADATA[inv[p].documentId].kind = "json"
        /\ DOC_METADATA[inv[p].documentId].obj.vectorIds = inv[p].vectorIds
        /\ Range(inv[p].vectorIds) \subseteq DOC_INDEX

\* the value under the reserved counter key changes in this step
CounterKeyChanges ==
    DOC_METADATA'[VECTOR_COUNT_KEY] # DOC_METADATA[VECTOR_COUNT_KEY]

\* C9, in every step: the value stored under the reserved counter key
\* changes only by the put of updateVectorCount, whatever document IDs the
\* callers supply.
C9_OnlyUpdateStep ==
    CounterKeyChanges
    => \E p \in Procs :
          /\ PutsCount(p)
          /\ DOC_METADATA'[VECTOR_COUNT_KEY] =
               TextValue(NumToString(inv[p].newCount))

\* C9: the quota counter is mutated exclusively through updateVectorCount;
\* no metadata put or delete of ingest, deleteDocument or cleanup targets
\* the reserved counter key.
C9_CounterOnlyByUpdate == [][C9_OnlyUpdateStep]_vars

\* the vector-ID list of a metadata record, as the writer of the record
\* stored it
RecordVectorIds(obj) == IF obj.hasVectorIds THEN obj.vectorIds ELSE obj.chunks

\* the cleanup in slot p, with no failed call, is about to remove the
\* metadata record of a document key
Removing(p) ==
    /\ IsCleanup(p)
    /\ inv[p].pc = "deleteMetadata"
    /\ ~inv[p].failed
    /\ inv[p].keys[inv[p].idx] # VECTOR_COUNT_KEY
    /\ CleanupStore[inv[p].keys[inv[p].idx]].kind = "json"

\* C10 (checked under SpecSeq): when cleanup comes to remove the metadata
\* record of an expired document, whoever wrote the record, every vector ID
\* of the record's list has been removed from the index and the counter has
\* been decremented by the length of the list.
C10_ExpiredVectorsRemoved ==
    \A p \in Procs :
        Removing(p)
        => LET ids == RecordVectorIds(CleanupStore[inv[p].keys[inv[p].idx]].obj)
           IN  /\ Range(ids) \cap DOC_INDEX = {}
               /\ Len(ids) > 0
                  => /\ HasCalled(p, "put", VECTOR_COUNT_KEY)
                     /\ inv[p].newCount =
                          NewCount(inv[p].currentCount, -Len(ids))

\* the metadata namespaces of the worker
Namespaces == {"DOC_METADATA", "DOCUMENT_METADATA"}

\* the contents of namespace ns in this state
Namespace(ns) == IF ns = "DOC_METADATA" THEN DOC_METADATA ELSE DOCUMENT_METADATA

\* the contents of namespace ns in the next state
NamespaceNext(ns) ==
    IF ns = "DOC_METADATA" THEN DOC_METADATA' ELSE DOCUMENT_METADATA'

\* key k of store holds the metadata record of a document whose upload
\* timestamp is not older than cutoff
Retained(store, k, cutoff) ==
    /\ store[k].kind = "json"
    /\ store[k].obj.hasUploadedAt
    /\ ~(store[k].obj.uploadedAt < cutoff)

\* the cleanup in slot p takes a step
Sweeps(p) == IsCleanup(p) /\ inv'[p] # inv[p]

\* C11 (checked under SpecSeq), in every step of a cleanup sweep: every
\* metadata record whose upload timestamp is not older than the cutoff of
\* the sweep is left as it is, every vector its list names stays in the
\* index, and a counter put of the sweep takes off the counter only the
\* length of the list of the expired record it is working on.
C11_SweepStep ==
    \A p \in Procs :
        Sweeps(p)
        => /\ \A ns \in Namespaces, k \in Keys :
                 Retained(Namespace(ns), k, inv[p].cutoff)
                 => /\ NamespaceNext(ns)[k] = Namespace(ns)[k]
                    /\ (Range(RecordVectorIds(Namespace(ns)[k].obj))
                          \cap DOC_INDEX) \subseteq DOC_INDEX'
           /\ PutsCount(p)
              => /\ ~Retained(CleanupStore, inv[p].keys[inv[p].idx],
                              inv[p].cutoff)
                 /\ inv[p].newCount =
                      NewCount(inv[p].currentCount,
                               -Len(ExtractVectorIds(
                                   CleanupStore[inv[p].keys[inv[p].idx]].obj)))

\* C11: a cleanup sweep leaves every document whose upload timestamp is not
\* older than the cutoff untouched: its metadata record, its vectors in the
\* index and its contribution to the counter are unchanged by the sweep.
C11_NewerDocumentsUntouched == [][C11_SweepStep]_vars

\* the number of counter puts the invocation in slot p has made
CountPuts(p) ==
    Cardinality({i \in 1..Len(inv[p].calls) :
                    inv[p].calls[i] = [c |-> "put", k |-> VECTOR_COUNT_KEY]})

\* the only failed call of the cleanup in slot p is one removal of vectors
OneRemovalFailed(p) ==
    /\ IsCleanup(p)
    /\ inv[p].failedAt = "deleteByIds"
    /\ inv[p].failures = 1

\* the sweep in slot p is through with entry j of its listing
Processed(p, j) ==
    /\ j \in 1..Len(inv[p].keys)
    /\ j < inv[p].idx \/ inv[p].pc = "done"

\* entry j of the listing of the sweep in slot p is an expired document
\* with a chunk list, other than the one whose removal failed
ExpiredListed(p, j) ==
    /\ j \in 1..Len(inv[p].keys)
    /\ j # inv[p].failedIdx
    /\ inv[p].keys[j] \in SeedIds
    /\ 0 < inv[p].cutoff

\* the embedAndStore in slot q wrote the record of entry j of the listing of
\* the sweep in slot p, with an upload timestamp older than its cutoff
IngestedExpired(p, j, q) ==
    /\ j \in 1..Len(inv[p].keys)
    /\ j # inv[p].failedIdx
    /\ IsEmbed(q)
    /\ inv[q].pc = "done" /\ inv[q].result.success
    /\ inv[q].seq < inv[p].seq
    /\ inv[q].documentId = inv[p].keys[j]
    /\ inv[q].documentId # VECTOR_COUNT_KEY
    /\ inv[q].uploadedAt < inv[p].cutoff

\* C12 (checked under SpecSeq), for the records of ingests: every expired
\* document an ingest wrote that the sweep is through with, after the one
\* failed removal, has its vectors removed from the index.
C12_LaterIngestedRemoved ==
    \A p, q \in Procs :
        OneRemovalFailed(p)
        => \A j \in 1..Len(inv[p].keys) :
              (j > inv[p].failedIdx /\ Processed(p, j) /\ IngestedExpired(p, j, q))
              => Range(inv[q].vectorIds) \cap DOC_INDEX = {}

\* C12 (checked under SpecSeq), in every state: a sweep whose only failure
\* was the vector store failing on one expired document has, once it has
\* returned, looked up every entry of its listing; every other expired
\* document it is through with has its vectors removed from the index and
\* its record removed, each with one counter decrement, and the returned
\* count is the number of vectors removed.
C12_SweepGoesOnState ==
    \A p \in Procs :
        OneRemovalFailed(p)
        => /\ inv[p].pc = "done"
              => /\ inv[p].result.returned
                 /\ \A j \in 1..Len(inv[p].keys) :
                       HasCalled(p, "get", inv[p].keys[j])
                 /\ inv[p].result.deletedCount = SeedChunks * CountPuts(p)
           /\ \A j \in 1..Len(inv[p].keys) :
                 (Processed(p, j) /\ ExpiredListed(p, j))
                 => /\ SeedVectors({inv[p].keys[j]}) \cap DOC_INDEX = {}
                    /\ CleanupStore[inv[p].keys[j]].kind = "absent"
           /\ CountPuts(p) >=
                Cardinality({j \in 1..Len(inv[p].keys) :
                                Processed(p, j) /\ ExpiredListed(p, j)})

\* C12, in every step: the step in which the vector store fails on one
\* document does not end the sweep and keeps its place in the listing.
C12_SweepGoesOnStep ==
    \A p \in Procs :
        (/\ IsCleanup(p)
         /\ inv[p].pc = "deleteByIds"
         /\ inv'[p].failures = inv[p].failures + 1)
        => /\ inv'[p].pc # "done"
           /\ ~inv'[p].result.returned
           /\ inv'[p].keys = inv[p].keys
           /\ inv'[p].idx = inv[p].idx

\* C12: partial-failure isolation in cleanup. If the vector store fails
\* while removing one expired document's vectors, the sweep still processes
\* every subsequent document of the listing, removing the vectors and
\* decrementing the counter of each later expired document, and still
\* returns a result.
C12_FailureDoesNotAbortSweep ==
    /\ []C12_SweepGoesOnState
    /\ []C12_LaterIngestedRemoved
    /\ [][C12_SweepGoesOnStep]_vars

\* C12 restricted to the documents whose records carry a chunk list
C12_FailureDoesNotAbortSweep_ChunkRecords ==
    []C12_SweepGoesOnState /\ [][C12_SweepGoesOnStep]_vars

\* the case of C12 on chunk records: the removal of the vectors of arc1 failed, the sweep went on
\* to old2, removed its vector and its record, and returned.
C12_ChunkRecordsCase ==
    \E p \in Procs :
        /\ OneRemovalFailed(p)
        /\ inv[p].pc = "done"
        /\ inv[p].result.returned
        /\ inv[p].failedIdx < Len(inv[p].keys)
        /\ inv[p].keys[inv[p].failedIdx] = "arc1"
        /\ inv[p].keys[Len(inv[p].keys)] = "old2"
        /\ SeedVectors({"arc1"}) \subseteq DOC_INDEX
        /\ SeedVectors({"old2"}) \cap DOC_INDEX = {}
        /\ inv[p].result.deletedCount = SeedChunks

\* the embedAndStore in slot p returned success and no invocation has been
\* started since
LastIngestSucceeded(p) ==
    /\ IsEmbed(p)
    /\ inv[p].pc = "done"
    /\ inv[p].result.success
    /\ inv[p].seq = nOps

\* C13 (checked under SpecSeq): a successful ingest of n chunks that started
\* from counter c with n <= MAX_VECTORS - c leaves the persisted counter at
\* c + n and has emitted exactly one metric, upsert_document_{documentId}
\* with delta = n and count = c + n.
C13_IngestCountsItsChunks ==
    \A p \in Procs :
        (/\ LastIngestSucceeded(p)
         /\ ~inv[p].countAtStart.nan
         /\ inv[p].requested <= MAX_VECTORS - inv[p].countAtStart.v)
        => /\ getVectorCount(DOC_METADATA) =
                Num(inv[p].countAtStart.v + inv[p].requested)
           /\ inv[p].emitted =
                <<emitQuotaMetric(
                     Num(inv[p].countAtStart.v + inv[p].requested),
                     inv[p].requested,
                     <<"upsert_document", inv[p].documentId>>)>>

\* the admission check of the embedAndStore in slot p has denied it
Denied(p) ==
    /\ IsEmbed(p)
    /\ inv[p].quotaCheck.checked
    /\ ~inv[p].quotaCheck.allowed

\* C14, in every state: a denied ingest of n requested chunks has emitted
\* exactly one metric, with delta = 0, count = the counter value its
\* admission check read and reason quota_denied_requested_{n}.
C14_DenialMetricState ==
    \A p \in Procs :
        Denied(p)
        => inv[p].emitted =
             <<emitQuotaMetric(inv[p].quotaCheck.currentCount, 0,
                               <<"quota_denied_requested", inv[p].requested>>)>>

\* C14, in every step: the denying step reports the counter it read from
\* the store and leaves the persisted counter at that value.
C14_DenialStep ==
    \A p \in Procs :
        (IsEmbed(p) /\ inv[p].pc = "checkVectorQuota"
                    /\ inv'[p].quotaCheck.checked
                    /\ ~inv'[p].quotaCheck.allowed)
        => /\ Len(inv'[p].emitted) = 1
           /\ inv'[p].emitted[1].count = getVectorCount(DOC_METADATA)
           /\ DOC_METADATA'[VECTOR_COUNT_KEY] = DOC_METADATA[VECTOR_COUNT_KEY]

\* C14: every quota denial is accompanied by a metric. Whenever ingest is
\* denied for n requested chunks, exactly one metric is emitted with
\* delta = 0, count = the counter value read by the admission check and
\* reason quota_denied_requested_{n}, and the counter keeps its value.
C14_DenialEmitsMetric == []C14_DenialMetricState /\ [][C14_DenialStep]_vars

\* C14 witness: a denial at counter 99 of a request for 2 chunks has logged
\* count 99, delta 0, and the counter still reads 99.
C14_Witness ==
    \E p \in Procs :
        /\ Denied(p)
        /\ inv[p].pc = "done"
        /\ inv[p].requested = MaxSmall
        /\ Len(inv[p].emitted) = 1
        /\ inv[p].emitted[1].count = Num(MAX_VECTORS - 1)
        /\ inv[p].emitted[1].delta = 0
        /\ inv[p].emitted[1].reason = <<"quota_denied_requested", MaxSmall>>
        /\ getVectorCount(DOC_METADATA) = Num(MAX_VECTORS - 1)

\* the external calls of one embedAndStore for documentId d, in the order of
\* the code: admit, embed, upsert, counter read and put, metadata put
EffectOrder(d) ==
    <<[c |-> "get", k |-> VECTOR_COUNT_KEY],
      [c |-> "run", k |-> "AI"],
      [c |-> "upsert", k |-> "DOC_INDEX"],
      [c |-> "get", k |-> VECTOR_COUNT_KEY],
      [c |-> "put", k |-> VECTOR_COUNT_KEY],
      [c |-> "put", k |-> d]>>

\* s is an initial part of t
IsPrefix(s, t) == Len(s) <= Len(t) /\ s = SubSeq(t, 1, Len(s))

\* C15, in every state: the external calls an ingest has made are an
\* initial part of admit, embed, upsert, counter read, counter put,
\* metadata put, and it called the embedding service only if admitted.
C15_OrderState ==
    \A p \in Procs :
        IsEmbed(p)
        => /\ IsPrefix(inv[p].calls, EffectOrder(inv[p].documentId))
           /\ Len(inv[p].calls) >= 2 => inv[p].quotaCheck.allowed

\* C15, in every step of an ingest: the index changes only in the upsert
\* step and by the vectors of the ingest, the counter key only in the step
\* after the counter read, the record of the document only in the last
\* step.
C15_OrderStep ==
    \A p \in Procs :
        (IsEmbed(p) /\ inv'[p] # inv[p])
        => /\ DOC_INDEX' # DOC_INDEX
              => /\ inv[p].pc = "upsert"
                 /\ DOC_INDEX' = DOC_INDEX \cup Range(inv[p].vectors)
           /\ DOC_METADATA' # DOC_METADATA
              => \/ /\ inv[p].pc = "putCount"
                    /\ DOC_METADATA' = PutCount(DOC_METADATA, inv[p].newCount)
                 \/ /\ inv[p].pc = "putMetadata"
                    /\ \A k \in Keys \ {inv[p].documentId} :
                          DOC_METADATA'[k] = DOC_METADATA[k]
           /\ DOCUMENT_METADATA' = DOCUMENT_METADATA

\* C15: within a single ingest invocation the external effects occur only
\* in the order admit, embed, vector upsert, counter increment, metadata
\* write: the embedding call only after admission passed, the counter
\* increment only after the upsert succeeded, the metadata record only
\* after the counter was incremented; no step is reordered or run twice.
C15_EffectsInOrder == []C15_OrderState /\ [][C15_OrderStep]_vars

\* C15 witness: an ingest has made all six calls and returned success.
C15_Witness ==
    \E p \in Procs :
        /\ IsEmbed(p)
        /\ inv[p].pc = "done"
        /\ inv[p].result.success
        /\ inv[p].documentId # VECTOR_COUNT_KEY
        /\ inv[p].calls = EffectOrder(inv[p].documentId)
        /\ Range(inv[p].vectors) \subseteq DOC_INDEX
        /\ DOC_METADATA[inv[p].documentId] = JsonValue(DocMetadata(inv[p]))

\* the awaited calls of embedAndStore, by the position it is suspended at
EmbedCallSites ==
    {"checkVectorQuota", "AI.run", "upsert", "getVectorCount", "putCount",
     "putMetadata"}

\* C16, in every state: an ingest one of whose calls failed has returned a
\* result with success = false and an error message.
C16_FailureState ==
    \A p \in Procs :
        (IsEmbed(p) /\ inv[p].failed)
        => /\ inv[p].failedAt \in EmbedCallSites
           /\ inv[p].pc = "done"
           /\ inv[p].result.returned
           /\ ~inv[p].result.success
           /\ inv[p].result.error # ""

\* C16, in every step: the step in which a call of an ingest fails, or the
\* embedding response fails the shape check, is the step in which the
\* ingest returns.
C16_FailureStep ==
    \A p \in Procs :
        (IsEmbed(p) /\ ~inv[p].failed /\ inv'[p].failed)
        => /\ inv'[p].failedAt = inv[p].pc
           /\ inv'[p].result.returned
           /\ ~inv'[p].result.success

\* C16: ingest never propagates a failure. If the embedding call, the
\* response-shape check, the vector upsert, the counter read or write or
\* the metadata write fails, embedAndStore returns a result with
\* success = false and an error message instead of raising.
C16_IngestNeverRaises == []C16_FailureState /\ [][C16_FailureStep]_vars

\* C16 witness: one ingest failed the shape check after the embedding call
\* returned, another failed at the metadata write; both returned failure.
C16_Witness ==
    \E p, q \in Procs :
        /\ IsEmbed(p) /\ IsEmbed(q)
        /\ inv[p].failedAt = "AI.run"
        /\ HasCalled(p, "run", "AI")
        /\ inv[q].failedAt = "putMetadata"
        /\ inv[p].result.returned /\ ~inv[p].result.success
        /\ inv[q].result.returned /\ ~inv[q].result.success

\* the metadata write of the embedAndStore in slot p failed after its upsert
\* and its counter update had succeeded
MetadataWriteFailed(p) ==
    /\ IsEmbed(p)
    /\ inv[p].failedAt = "putMetadata"

\* no record in DOC_METADATA lists a vector of the ingest in slot p
Unlisted(p) ==
    \A k \in Keys :
        DOC_METADATA[k].kind = "json"
        => Range(DOC_METADATA[k].obj.vectorIds) \cap Range(inv[p].vectors) = {}

\* the deleteDocumentVectors in slot q is the invocation started next after
\* the one in slot p, for the same document ID, and has returned
DeletedNext(p, q) ==
    /\ IsDelete(q)
    /\ inv[q].seq = inv[p].seq + 1
    /\ inv[q].documentId = inv[p].documentId
    /\ inv[q].pc = "done"
    /\ ~inv[q].failed

\* C17 (checked under SpecSeq), in every state: after an ingest whose
\* metadata write failed, and until another invocation is started, its
\* vectors are in the index and counted in the counter and no record lists
\* them; a deleteDocument of its document ID that runs next returns
\* deletedCount = 0 and leaves the vectors and the counter as they are.
C17_OrphanState ==
    \A p \in Procs :
        MetadataWriteFailed(p)
        => /\ inv[p].result.returned /\ ~inv[p].result.success
           /\ HasCalled(p, "upsert", "DOC_INDEX")
           /\ HasCalled(p, "put", VECTOR_COUNT_KEY)
           /\ inv[p].seq = nOps
              => /\ Range(inv[p].vectors) \subseteq DOC_INDEX
                 /\ getVectorCount(DOC_METADATA) = inv[p].newCount
                 /\ inv[p].newCount =
                      JsAdd(inv[p].countAtStart, Num(Len(inv[p].vectors)))
                 /\ Unlisted(p)
           /\ \A q \in Procs :
                 (DeletedNext(p, q) /\ inv[q].seq = nOps)
                 => /\ inv[q].result.success
                    /\ inv[q].result.deletedCount = 0
                    /\ Range(inv[p].vectors) \subseteq DOC_INDEX
                    /\ getVectorCount(DOC_METADATA) = inv[p].newCount
                    /\ Unlisted(p)

\* C17, in every step: the failing metadata write changes no store.
C17_OrphanStep ==
    \A p \in Procs :
        (IsEmbed(p) /\ inv[p].pc = "putMetadata"
                    /\ inv'[p].failedAt = "putMetadata")
        => UnchangedStores

C17_NewDocumentOrphanState ==
    \A p \in Procs :
        (MetadataWriteFailed(p) /\ ~inv[p].listedAtStart)
        => /\ inv[p].result.returned /\ ~inv[p].result.success
           /\ HasCalled(p, "upsert", "DOC_INDEX")
           /\ HasCalled(p, "put", VECTOR_COUNT_KEY)
           /\ inv[p].seq = nOps
              => /\ Range(inv[p].vectors) \subseteq DOC_INDEX
                 /\ getVectorCount(DOC_METADATA) = inv[p].newCount
                 /\ inv[p].newCount =
                      JsAdd(inv[p].countAtStart, Num(Len(inv[p].vectors)))
                 /\ Unlisted(p)
           /\ \A q \in Procs :
                 (DeletedNext(p, q) /\ inv[q].seq = nOps)
                 => /\ inv[q].result.success
                    /\ inv[q].result.deletedCount = 0
                    /\ Range(inv[p].vectors) \subseteq DOC_INDEX
                    /\ getVectorCount(DOC_METADATA) = inv[p].newCount
                    /\ Unlisted(p)

TopKsPassed(p) ==
    {inv[p].calls[i].k : i \in {j \in 1..Len(inv[p].calls) :
                                   inv[p].calls[j].c = "query"}}

\* C18 (checked under SpecRead), in every state: every topK that a
\* queryDocuments or a getDocumentContext has passed to the index is
\* min(limit, MAX_VECTORS) of the caller's limit (NaN for a limit that is
\* not a number) and does not exceed MAX_VECTORS.
C18_TopKState ==
    \A p \in Procs :
        Querying(p)
        => \A topK \in TopKsPassed(p) :
              /\ ~inv[p].limit.nan
                 => topK = Num(Least(inv[p].limit.v, MAX_VECTORS))
              /\ inv[p].limit.nan => topK.nan
              /\ ~(topK.v > MAX_VECTORS)

\* C18, in every step: the query of the index is made with the clamped
\* limit and changes no store.
C18_TopKStep ==
    \A p \in Procs :
        (Querying(p) /\ inv[p].pc = "query"
                     /\ Len(inv'[p].calls) = Len(inv[p].calls) + 1)
        => /\ inv'[p].calls[Len(inv'[p].calls)] =
                [c |-> "query", k |-> JsMin(inv[p].limit, Num(MAX_VECTORS))]
           /\ inv'[p].matches <= MAX_VECTORS
           /\ UnchangedStores

\* C18: queryDocuments clamps the caller's limit to the capacity ceiling:
\* for every limit value the topK passed to the vector store equals
\* min(limit, MAX_VECTORS) and so never exceeds MAX_VECTORS;
\* getDocumentContext applies the same bound to its topK.
C18_TopKClamped == []C18_TopKState /\ [][C18_TopKStep]_vars

\* C18 witness: a queryDocuments with limit 200 and a getDocumentContext
\* with topK 101 have both queried the index with topK 100.
C18_Witness ==
    \E p, q \in Procs :
        /\ inv[p].op = "queryDocuments"
        /\ inv[p].limit = Num(2 * MAX_VECTORS)
        /\ TopKsPassed(p) = {Num(MAX_VECTORS)}
        /\ inv[q].op = "getDocumentContext"
        /\ inv[q].limit = Num(MAX_VECTORS + 1)
        /\ TopKsPassed(q) = {Num(MAX_VECTORS)}
        /\ inv[p].pc = "done" /\ inv[q].pc = "done"

\* the getVectorUsageStatus in slot p has returned its snapshot
Reported(p) ==
    /\ inv[p].op = "getVectorUsageStatus"
    /\ inv[p].pc = "done"
    /\ inv[p].result.returned

\* C19 (checked under SpecRead), in every state: the snapshot a
\* getVectorUsageStatus returned for a counter c has maxCount = MAX_VECTORS,
\* availableQuota = MAX_VECTORS - c and percentageUsed = c / MAX_VECTORS as
\* a percentage; no operation of SpecRead writes, so c is the persisted
\* counter.
C19_SnapshotState ==
    \A p \in Procs :
        Reported(p)
        => LET c == getVectorCount(DOC_METADATA) IN
           /\ ~c.nan
           /\ inv[p].usage.currentCount = c
           /\ inv[p].usage.maxCount = MAX_VECTORS
           /\ inv[p].usage.availableQuota = Num(MAX_VECTORS - c.v)
           /\ inv[p].usage.percentageUsedTimes100.v * MAX_VECTORS
                = c.v * 100 * 100

\* C19, in every step: a step of getVectorUsageStatus leaves the counter and
\* every other stored value as it was.
C19_SnapshotStep ==
    \A p \in Procs :
        (inv[p].op = "getVectorUsageStatus" /\ inv'[p] # inv[p])
        => UnchangedStores

\* C19: getVectorUsageStatus is a read-only snapshot: for a persisted
\* counter c it returns currentCount = c, maxCount = MAX_VECTORS,
\* availableQuota = MAX_VECTORS - c and percentageUsed = c as a percentage
\* of MAX_VECTORS (c = 75 gives 75, 100, 25, 75.0), and it does not change
\* the counter.
C19_UsageStatusSnapshot == []C19_SnapshotState /\ [][C19_SnapshotStep]_vars

\* C19 witness: at counter 75 the snapshot is 75, 100, 25 and 75.00 percent.
C19_Witness ==
    \E p \in Procs :
        /\ Reported(p)
        /\ getVectorCount(DOC_METADATA) = Num(75)
        /\ inv[p].usage = [currentCount |-> Num(75), maxCount |-> 100,
                           availableQuota |-> Num(25),
                           percentageUsedTimes100 |-> Num(7500)]

\* s without its white space
RECURSIVE WithoutSpace(_)
WithoutSpace(s) ==
    IF s = <<>> THEN <<>>
    ELSE IF IsSpace(Head(s)) THEN WithoutSpace(Tail(s))
    ELSE <<Head(s)>> \o WithoutSpace(Tail(s))

\* the chunks one after the other
RECURSIVE Concatenation(_)
Concatenation(chunks) ==
    IF chunks = <<>> THEN <<>>
    ELSE Head(chunks) \o Concatenation(Tail(chunks))

\* C20 (checked under SpecChunk): for every input text and maximum chunk
\* size, the chunks chunkText returned, concatenated in order, reproduce the
\* input text up to white space: no character of the input other than white
\* space is lost.
C20_ChunksReproduceText ==
    \A p \in Procs :
        (inv[p].op = "chunkText" /\ inv[p].pc = "done")
        => WithoutSpace(Concatenation(inv[p].chunks))
             = WithoutSpace(inv[p].text)

\* chunk is one sentence of text, trimmed, and that sentence alone is longer
\* than maxChunkSize
SingleLongSentence(chunk, text, maxChunkSize) ==
    \E j \in 1..Len(Sentences(text)) :
        /\ chunk = Trim(Sentences(text)[j])
        /\ Len(Sentences(text)[j]) > maxChunkSize

\* C21 (checked under SpecChunk): for every input text and maximum chunk
\* size, each chunk chunkText returned has length <= the maximum, unless
\* the chunk consists of a single sentence that alone exceeds the maximum.
C21_ChunkSizeBound ==
    \A p \in Procs :
        (inv[p].op = "chunkText" /\ inv[p].pc = "done")
        => \A i \in 1..Len(inv[p].chunks) :
              \/ Len(inv[p].chunks[i]) <= inv[p].maxChunkSize
              \/ SingleLongSentence(inv[p].chunks[i], inv[p].text,
                                    inv[p].maxChunkSize)

\* C22 (checked under SpecSeq, where invocations run one at a time and the
\* embedding service returns one vector per chunk): in every reachable
\* state the persisted counter is a number with
\* 0 <= counter <= MAX_VECTORS.
C22_CounterInRange ==
    /\ ~getVectorCount(DOC_METADATA).nan
    /\ 0 <= getVectorCount(DOC_METADATA).v
    /\ getVectorCount(DOC_METADATA).v <= MAX_VECTORS

\* p and q are two invocations whose updateVectorCount calls read the same
\* counter c and apply non-zero deltas d1 and d2, none of c + d1, c + d2 and
\* c + d1 + d2 being clamped at zero
SameReadNoClamp(p, q) ==
    /\ p # q
    /\ ~inv[p].currentCount.nan
    /\ inv[q].currentCount = inv[p].currentCount
    /\ Delta(p) # 0
    /\ Delta(q) # 0
    /\ inv[p].currentCount.v + Delta(p) >= 0
    /\ inv[p].currentCount.v + Delta(q) >= 0
    /\ inv[p].currentCount.v + Delta(p) + Delta(q) >= 0

\* C23 (checked under Spec, where invocations interleave at their external
\* calls): when updateVectorCount in p puts its count after the
\* updateVectorCount of q, which read the same counter c, has put its own,
\* no clamping involved, the persisted counter becomes c + d1: the update of
\* q is lost and the counter differs from c + d1 + d2.
C23_LostUpdate ==
    [][\A p, q \in Procs :
          (/\ PutsCount(p)
           /\ SameReadNoClamp(p, q)
           /\ HasCalled(q, "put", VECTOR_COUNT_KEY)
           /\ inv[q].pc # "putCount")
          => /\ getVectorCount(DOC_METADATA') =
                  Num(inv[p].currentCount.v + Delta(p))
             /\ getVectorCount(DOC_METADATA') #
                  Num(inv[p].currentCount.v + Delta(p) + Delta(q))]_vars

\* two updateVectorCount calls have read the same counter and both have put
\* their counts, and the persisted counter is short of one of the deltas
C23_Witness ==
    \E p, q \in Procs :
        /\ SameReadNoClamp(p, q)
        /\ HasCalled(p, "put", VECTOR_COUNT_KEY)
        /\ HasCalled(q, "put", VECTOR_COUNT_KEY)
        /\ inv[p].pc # "putCount"
        /\ inv[q].pc # "putCount"
        /\ getVectorCount(DOC_METADATA) = Num(inv[p].currentCount.v + Delta(p))
        /\ getVectorCount(DOC_METADATA) #
             Num(inv[p].currentCount.v + Delta(p) + Delta(q))

\* the executions that started from an empty vector store and counter 0:
\* the first invocation started at count 0, or none has started and the
\* index is empty
FromEmpty ==
    IF \E p \in Procs : inv[p].seq = 1
    THEN \E p \in Procs : inv[p].seq = 1 /\ inv[p].countAtStart = Num(0)
    ELSE DOC_INDEX = {} /\ getVectorCount(DOC_METADATA) = Num(0)

\* no external call of any invocation has failed
NoFailures == \A p \in Procs : inv[p].failures = 0

\* C24 (checked under SpecSeq): starting from an empty vector store and
\* counter 0, after any sequence of non-interleaved ingest, deleteDocument
\* and cleanup invocations in which no external call failed, the persisted
\* counter equals the number of vector records in the vector store.
C24_NoDriftWithoutFailures ==
    (FromEmpty /\ NoFailures /\ Quiet)
    => getVectorCount(DOC_METADATA) = Num(Cardinality(DOC_INDEX))

\* some document metadata record lists the vector id
Listed(id) ==
    \E k \in Keys :
        /\ DOC_METADATA[k].kind = "json"
        /\ DOC_METADATA[k].obj.hasVectorIds
        /\ id \in Range(DOC_METADATA[k].obj.vectorIds)

\* C25 (checked under SpecSeq): starting from an empty vector store, after
\* any sequence of non-interleaved embedAndStore and deleteDocumentVectors
\* invocations in which no external call failed, repeated ingests under one
\* document ID included, every vector ID in the vector store is in the
\* vector-ID list of some document metadata record.
C25_NoOrphansWithoutFailures ==
    (/\ FromEmpty
     /\ NoFailures
     /\ Quiet
     /\ \A p \in Procs : ~IsCleanup(p))
    => \A id \in DOC_INDEX : Listed(id)

\* the cleanup in slot p removes the metadata record of its current key in
\* this step
RemovesRecord(p) ==
    /\ IsCleanup(p)
    /\ inv[p].pc = "deleteMetadata"
    /\ Len(inv'[p].calls) = Len(inv[p].calls) + 1

\* C26 (checked under SpecSeq): cleanup removes the metadata record of an
\* expired document only when vector IDs were extracted from the record and
\* their removal from the vector store has succeeded; after a failed removal,
\* or with no vector IDs extracted, the record is kept.
C26_RecordRemovedOnlyWithVectors ==
    [][\A p \in Procs :
          RemovesRecord(p)
          => /\ inv[p].vectorIds # <<>>
             /\ ~(inv[p].failed /\ inv[p].failedIdx = inv[p].idx)
             /\ Range(inv[p].vectorIds) \cap DOC_INDEX = {}]_vars

\* p and q are the first and the second invocation started, both
\* deleteDocumentVectors for one document with the same vector-ID list
TwoDeletesOfOneDocument(p, q) ==
    /\ IsDelete(p)
    /\ IsDelete(q)
    /\ inv[p].seq = 1
    /\ inv[q].seq = 2
    /\ inv[p].documentId = inv[q].documentId
    /\ inv[p].vectorIds = inv[q].vectorIds
    /\ ~inv[p].countAtStart.nan

\* C27 (checked under Spec, where invocations interleave at their external
\* calls): two concurrent deleteDocumentVectors invocations for one document
\* never lower the counter by more than the number of vectors of the
\* document, which is what they removed from the vector store.
C27_ConcurrentDeletesDecrementOnce ==
    \A p, q \in Procs :
        TwoDeletesOfOneDocument(p, q)
        => /\ ~getVectorCount(DOC_METADATA).nan
           /\ inv[p].countAtStart.v - getVectorCount(DOC_METADATA).v
                <= Len(inv[p].vectorIds)

\* C28 (checked under Spec): every put of the counter by updateVectorCount,
\* in embedAndStore, deleteDocumentVectors or cleanupOldVectors, is followed
\* in the same invocation, before its next external call, by one
\* vector_quota metric whose count is the value just written and whose delta
\* is the signed number of vectors added or removed.
C28_EveryCounterPutEmitsMetric ==
    [][\A p \in Procs :
          PutsCount(p)
          => /\ Len(inv'[p].emitted) = Len(inv[p].emitted) + 1
             /\ inv'[p].emitted[Len(inv'[p].emitted)].type = "vector_quota"
             /\ inv'[p].emitted[Len(inv'[p].emitted)].count = inv[p].newCount
             /\ inv'[p].emitted[Len(inv'[p].emitted)].delta = Delta(p)]_vars

====
